---- MODULE Spec2Model ----
(***************************************************************************)
(* Model of src/lambda/flatten_orders_to_parquet.py: the Lambda handler    *)
(* that flattens a JSON array of orders into two Parquet datasets          *)
(* (fact_orders, fact_order_items) partitioned by order_year/order_month.  *)
(*                                                                         *)
(* Conventions of the model                                                *)
(*  - an integer that appears as text ("\d+") is a sequence of decimal     *)
(*    digits, so the 10^15 threshold and the int64 nanosecond range are    *)
(*    decided on the digits and never overflow the checker's integers;     *)
(*  - a UTC instant is its nanosecond epoch, as a digit sequence without   *)
(*    leading zeros; NaT is the instant with nat = TRUE;                   *)
(*  - an ISO-8601 string is the civil date-time it spells,                 *)
(*    <<year, month, day, hour, minute, second>>, parsed by the calendar   *)
(*    arithmetic; .dt.year/.dt.month/.dt.date invert that arithmetic;      *)
(*  - a DataFrame is [cols |-> set of column names, rows |-> sequence of   *)
(*    functions from cols to cells]; NA is the missing cell;               *)
(*  - prices are decimal fixed point: a number is an integer count of      *)
(*    thousandths, a product of two numbers a count of millionths.         *)
(*                                                                         *)
(* Left out: the customer.* / payment.* columns of lines 121-132 and the   *)
(* order_total coercion of lines 145-146, which add or retype columns of   *)
(* FACT_ORDERS and touch no row, partition or key; records and cells are   *)
(* JSON objects and scalars.  pandas is modelled by its documented         *)
(* behaviour: explode gives one NaN row for an empty list or a scalar,     *)
(* json_normalize gives a row with no field for a NaN, errors="coerce"     *)
(* gives NaN / NaT, and to_datetime parses each cell on its own.           *)
(***************************************************************************)
EXTENDS Integers, Sequences, FiniteSets, TLC

VARIABLES
    pc,            \* position of the running invocation in lambda_handler
    body,          \* the S3 object read at line 95-96: [kind, orders]
    context,       \* the Lambda context: "none" or an aws_request_id
    now,           \* the UTC clock, in ticks (datetime.utcnow())
    inv,           \* ordinal of the running invocation
    df_fact_orders,
    df_fact_order_items,
    partitions,    \* the list built at line 174
    p,             \* index of the partition the loop of line 176 is at
    run_id,        \* line 191, computed once per loop iteration
    storage,       \* the output bucket: a set of [key, cols, rows, inv]
    uploads,       \* keys handed to s3.upload_file by this invocation, in order
    writes,        \* every upload ever made: a set of [inv, context, second, key]
    result,        \* the value returned by lambda_handler
    error,         \* the exception that ended the invocation, "" when none
    series,        \* argument of a stand-alone call of _safe_to_datetime
    parsed         \* its return value

vars == <<pc, body, context, now, inv, df_fact_orders, df_fact_order_items,
          partitions, p, run_id, storage, uploads, writes, result, error,
          series, parsed>>

--------------------------------------------------------------------------
(* Bounds of the model. *)

MaxOrders == 2         \* records in the input array
MaxItems == 2          \* items of the order of the item-level specification
MaxClock == 2          \* clock ticks that pass
TicksPerSecond == 2    \* clock ticks in one UTC second
MaxInvocations == 2    \* invocations in a row

--------------------------------------------------------------------------
(* Decimal digit strings. *)

Digit == 0..9

RECURSIVE StripZeros(_)
StripZeros(d) ==
    IF Len(d) <= 1 THEN d
    ELSE IF Head(d) = 0 THEN StripZeros(Tail(d)) ELSE d

RECURSIVE LexLeq(_, _)
LexLeq(a, b) ==
    IF a = <<>> THEN TRUE
    ELSE IF Head(a) # Head(b) THEN Head(a) < Head(b)
    ELSE LexLeq(Tail(a), Tail(b))

\* a <= b for digit strings without leading zeros
DigitsLeq(a, b) ==
    IF Len(a) # Len(b) THEN Len(a) < Len(b) ELSE LexLeq(a, b)

RECURSIVE ToDigits(_)
ToDigits(n) ==
    IF n < 10 THEN <<n>> ELSE Append(ToDigits(n \div 10), n % 10)

RECURSIVE FromDigits(_)
FromDigits(d) ==
    IF d = <<>> THEN 0
    ELSE FromDigits(SubSeq(d, 1, Len(d) - 1)) * 10 + d[Len(d)]

Zeros(n) == [i \in 1..n |-> 0]

--------------------------------------------------------------------------
(* Calendar arithmetic of the proleptic Gregorian calendar, as used by     *)
(* pd.to_datetime on a date string and by the .dt accessors.               *)

IsLeap(y) == (y % 4 = 0 /\ y % 100 # 0) \/ y % 400 = 0

DaysInMonth(y, m) ==
    IF m = 2 THEN (IF IsLeap(y) THEN 29 ELSE 28)
    ELSE IF m \in {4, 6, 9, 11} THEN 30 ELSE 31

DaysFromCivil(y, m, d) ==
    LET yy  == IF m <= 2 THEN y - 1 ELSE y
        era == yy \div 400
        yoe == yy - era * 400
        mp  == IF m > 2 THEN m - 3 ELSE m + 9
        doy == (153 * mp + 2) \div 5 + d - 1
        doe == yoe * 365 + yoe \div 4 - yoe \div 100 + doy
    IN  era * 146097 + doe - 719468

\* <<year, month, day>> of a day number counted from 1970-01-01
CivilFromDays(z) ==
    LET zz  == z + 719468
        era == zz \div 146097
        doe == zz - era * 146097
        yoe == (doe - doe \div 1460 + doe \div 36524 - doe \div 146096) \div 365
        doy == doe - (365 * yoe + yoe \div 4 - yoe \div 100)
        mp  == (5 * doy + 2) \div 153
        d   == doy - (153 * mp + 2) \div 5 + 1
        m   == IF mp < 10 THEN mp + 3 ELSE mp - 9
        y   == yoe + era * 400
    IN  <<IF m <= 2 THEN y + 1 ELSE y, m, d>>

ValidCivil(c) ==
    /\ c[2] \in 1..12
    /\ c[3] \in 1..DaysInMonth(c[1], c[2])
    /\ c[4] \in 0..23 /\ c[5] \in 0..59 /\ c[6] \in 0..59

EpochSeconds(c) ==
    DaysFromCivil(c[1], c[2], c[3]) * 86400 + c[4] * 3600 + c[5] * 60 + c[6]

--------------------------------------------------------------------------
(* Instants: datetime64[ns, UTC]. *)

NaT == [nat |-> TRUE, ns |-> <<>>]

Instant(d) == [nat |-> FALSE, ns |-> StripZeros(d)]

\* the largest int64, the range of a nanosecond timestamp
Int64Max == <<9,2,2,3,3,7,2,0,3,6,8,5,4,7,7,5,8,0,7>>

InNsRange(d) == DigitsLeq(StripZeros(d), Int64Max)

\* whole seconds since the epoch of a non-null instant
InstantSeconds(t) ==
    IF Len(t.ns) <= 9 THEN 0 ELSE FromDigits(SubSeq(t.ns, 1, Len(t.ns) - 9))

dt_date(t)  == CivilFromDays(InstantSeconds(t) \div 86400)
dt_year(t)  == dt_date(t)[1]
dt_month(t) == dt_date(t)[2]

--------------------------------------------------------------------------
(* Cells of the order_timestamp column as they arrive in the JSON.         *)
(*   absent : the record has no such key (NaN in the DataFrame) or null    *)
(*   text   : a string no parser accepts, such as "not-a-date"             *)
(*   digits : an integer, or a string of digits only                       *)
(*   iso    : an ISO-8601 UTC string                                       *)

NoCivil == <<0, 0, 0, 0, 0, 0>>

TsAbsent    == [kind |-> "absent", d |-> <<>>, c |-> NoCivil]
TsText      == [kind |-> "text",   d |-> <<>>, c |-> NoCivil]
TsDigits(d) == [kind |-> "digits", d |-> d,    c |-> NoCivil]
TsIso(c)    == [kind |-> "iso",    d |-> <<>>, c |-> c]

\* 10^15 has sixteen digits: num < 1e15 iff num has at most fifteen
MsDigits == 15

\* line 59: s_str.str.fullmatch(r"\d+").fillna(False)
is_num(v) == v.kind = "digits"

\* the numeric candidates below the threshold read with unit="s"
dt_ms_as_seconds(v) ==
    IF is_num(v) /\ Len(StripZeros(v.d)) <= MsDigits
                 /\ InNsRange(StripZeros(v.d) \o Zeros(9))
    THEN Instant(v.d \o Zeros(9))
    ELSE NaT

\* line 65: num.where(num < 1e15) read with unit="ms", errors="coerce"
dt_ms(v) ==
    IF is_num(v) /\ Len(StripZeros(v.d)) <= MsDigits
                 /\ InNsRange(StripZeros(v.d) \o Zeros(6))
    THEN Instant(v.d \o Zeros(6))
    ELSE NaT

\* line 66: num.where(num >= 1e15) read with unit="ns", errors="coerce"
dt_ns(v) ==
    IF is_num(v) /\ Len(StripZeros(v.d)) > MsDigits /\ InNsRange(v.d)
    THEN Instant(v.d)
    ELSE NaT

\* line 67: dt_ms.fillna(dt_ns)
dt_num(v) == IF dt_ms(v).nat THEN dt_ns(v) ELSE dt_ms(v)

\* line 70: pd.to_datetime(s_str.where(~is_num), errors="coerce", utc=True)
dt_str(v) ==
    IF v.kind = "iso" /\ ValidCivil(v.c)
    THEN Instant(ToDigits(EpochSeconds(v.c)) \o Zeros(9))
    ELSE NaT

\* line 73: dt_str.fillna(dt_num), for one cell
SafeCell(v) == IF dt_str(v).nat THEN dt_num(v) ELSE dt_str(v)

\* lines 45-73, over the whole column
safe_to_datetime(s) == [i \in DOMAIN s |-> SafeCell(s[i])]

--------------------------------------------------------------------------
(* Cells of quantity and unit_price as they arrive in an item.             *)
(*   absent : the item has no such key        text : such as "N/A"         *)
(*   num    : a JSON number, v thousandths    str  : a string of digits    *)

NumAbsent == [kind |-> "absent", v |-> 0, d |-> <<>>]
NumText   == [kind |-> "text",   v |-> 0, d |-> <<>>]
Num(v)    == [kind |-> "num",    v |-> v, d |-> <<>>]
NumStr(d) == [kind |-> "str",    v |-> 0, d |-> d]

\* a numeric cell of a DataFrame; NA is NaN
NA     == [na |-> TRUE,  v |-> 0]
Val(v) == [na |-> FALSE, v |-> v]

\* pd.to_numeric(..., errors="coerce") on one cell, lines 165 and 167
to_numeric(c) ==
    CASE c.kind = "num" -> Val(c.v)
      [] c.kind = "str" -> Val(FromDigits(c.d) * 1000)
      [] OTHER          -> NA

\* round half to even of n / unit, the rounding of Series.round
RoundHalfEven(n, unit) ==
    LET q == n \div unit
        r == n % unit
    IN  IF 2 * r < unit THEN q
        ELSE IF 2 * r > unit THEN q + 1
        ELSE IF q % 2 = 0 THEN q ELSE q + 1

\* the product with a missing operand counted as 0
line_total_fill_zero(q, u) ==
    Val(RoundHalfEven((IF q.na THEN 0 ELSE q.v) * (IF u.na THEN 0 ELSE u.v), 10000))

\* lines 169-171: (quantity * unit_price).round(2), in hundredths;
\* the operands are thousandths, their product millionths
line_total(q, u) ==
    IF q.na \/ u.na THEN NA ELSE Val(RoundHalfEven(q.v * u.v, 10000))

--------------------------------------------------------------------------
(* The input. An order is                                                  *)
(*   [has_id, order_id, order_timestamp, has_items, items]                 *)
(* where has_id / has_items say whether the record carries the key, and an *)
(* order_timestamp of kind "absent" that it does not carry that key.       *)

Item(q, u) == [quantity |-> q, unit_price |-> u]

Order(hasId, ts, hasItems, items) ==
    [has_id |-> hasId, order_id |-> 0, order_timestamp |-> ts,
     has_items |-> hasItems, items |-> items]

\* the k-th record of the array gets order_id k
Numbered(shapes) ==
    [k \in DOMAIN shapes |-> [shapes[k] EXCEPT !.order_id = k]]

SeqsUpTo(S, n) == UNION {[1..k -> S] : k \in 0..n}

\* the S3 object: malformed text, a JSON value that is no array, or an array
Malformed   == [kind |-> "malformed", orders |-> <<>>]
NonArray(k) == [kind |-> k, orders |-> <<>>]
Array(os)   == [kind |-> "array", orders |-> os]

NonArrayKinds == {"object", "number", "string", "null"}

--------------------------------------------------------------------------
(* DataFrames. *)

EmptyFrame == [cols |-> {}, rows |-> <<>>]

\* DataFrame.empty: any axis of length 0
Empty(df) == df.cols = {} \/ df.rows = <<>>

Restrict(f, S) == [c \in S |-> f[c]]

Merge(f, g) ==
    [c \in DOMAIN f \cup DOMAIN g |-> IF c \in DOMAIN g THEN g[c] ELSE f[c]]

\* the frame with no column dropped
DropNothing(df, cols) == df

\* df.drop(columns=cols, errors="ignore")
Drop(df, cols) ==
    [cols |-> df.cols \ cols,
     rows |-> [i \in DOMAIN df.rows |-> Restrict(df.rows[i], df.cols \ cols)]]

\* line 35
PARTITION_COLS == {"order_year", "order_month"}

\* line 107: the columns of pd.DataFrame(orders) are the keys some record has
RawCols(orders) ==
    {c \in {"order_id", "order_timestamp", "items"} :
        \E k \in DOMAIN orders :
            CASE c = "order_id"        -> orders[k].has_id
              [] c = "order_timestamp" -> orders[k].order_timestamp.kind # "absent"
              [] OTHER                 -> orders[k].has_items}

\* the required keys checked record by record
MissingRequiredInSomeRecord(orders) ==
    \E k \in DOMAIN orders :
        ~orders[k].has_id \/ orders[k].order_timestamp.kind = "absent"

\* line 110
MissingRequired(orders) ==
    "order_id" \notin RawCols(orders) \/ "order_timestamp" \notin RawCols(orders)

\* lines 114-119: the retained orders, with the parsed timestamp and the
\* derived order_date, order_year, order_month
KeepParsed(r) == ~r.order_timestamp.nat

\* the rows with a null order_timestamp kept
dropna_keep_all(rows) == rows

dropna(rows) == SelectSeq(rows, KeepParsed)

Derived(orders) ==
    LET ts == safe_to_datetime([k \in DOMAIN orders |-> orders[k].order_timestamp])
        withTs == [k \in DOMAIN orders |->
                     [order_id |-> IF orders[k].has_id THEN Val(orders[k].order_id) ELSE NA,
                      order_timestamp |-> ts[k],
                      items |-> [na |-> ~orders[k].has_items, list |-> orders[k].items]]]
        kept == dropna(withTs)
    IN  [k \in DOMAIN kept |->
            Merge(kept[k],
                  [order_date  |-> dt_date(kept[k].order_timestamp),
                   order_year  |-> dt_year(kept[k].order_timestamp),
                   order_month |-> dt_month(kept[k].order_timestamp)])]

DerivedCols == {"order_date", "order_year", "order_month"}

\* lines 134-143: FACT_ORDERS, every column but customer, payment, items
FactOrders(orders) ==
    LET base_cols == (RawCols(orders) \cup DerivedCols) \ {"customer", "payment", "items"}
        rows == Derived(orders)
    IN  [cols |-> base_cols,
         rows |-> [k \in DOMAIN rows |-> Restrict(rows[k], base_cols)]]

ctx_cols == {"order_id", "order_timestamp", "order_date", "order_year", "order_month"}

\* the cell explode leaves for a row with no item: NaN
NoItem == [na |-> TRUE, item |-> Item(NumAbsent, NumAbsent)]

\* line 153 for one row: a list gives one row per element, an empty list
\* and a scalar (NaN) each give one row holding NaN
ExplodeRow(r) ==
    IF r.items.na \/ r.items.list = <<>>
    THEN <<Merge(Restrict(r, ctx_cols), [items |-> NoItem])>>
    ELSE [j \in DOMAIN r.items.list |->
            Merge(Restrict(r, ctx_cols),
                  [items |-> [na |-> FALSE, item |-> r.items.list[j]]])]

RECURSIVE explode(_)
explode(rows) ==
    IF rows = <<>> THEN <<>> ELSE ExplodeRow(Head(rows)) \o explode(Tail(rows))

\* line 155: the columns of json_normalize are the keys some item has;
\* a NaN cell normalises to a row with no key
ItemCols(rows) ==
    {c \in {"quantity", "unit_price"} :
        \E k \in DOMAIN rows :
            /\ ~rows[k].items.na
            /\ rows[k].items.item[c].kind # "absent"}

\* lines 155-159 and 163-171, for one exploded row
ItemRow(r, icols) ==
    LET q == IF r.items.na THEN NA ELSE to_numeric(r.items.item.quantity)
        u == IF r.items.na THEN NA ELSE to_numeric(r.items.item.unit_price)
        all == Merge(Restrict(r, ctx_cols),
                     [quantity |-> q, unit_price |-> u, line_total |-> line_total(q, u)])
    IN  Restrict(all, ctx_cols \cup icols
                      \cup (IF {"quantity", "unit_price"} \subseteq icols
                            THEN {"line_total"} ELSE {}))

\* lines 148-171: FACT_ORDER_ITEMS
FactOrderItems(orders) ==
    IF "items" \notin RawCols(orders) THEN EmptyFrame
    ELSE LET exploded == explode(Derived(orders))
             icols    == ItemCols(exploded)
             rows     == [k \in DOMAIN exploded |-> ItemRow(exploded[k], icols)]
         IN  IF rows = <<>> THEN [cols |-> ctx_cols, rows |-> <<>>]
             ELSE [cols |-> DOMAIN rows[1], rows |-> rows]

\* line 174: drop_duplicates keeps the first occurrence, in row order
RECURSIVE Distinct(_)
Distinct(s) ==
    IF s = <<>> THEN <<>>
    ELSE LET init == Distinct(SubSeq(s, 1, Len(s) - 1))
             x    == s[Len(s)]
         IN  IF \E i \in DOMAIN init : init[i] = x THEN init ELSE Append(init, x)

\* the partition list without drop_duplicates
PartitionsPerRow(df) ==
    [k \in DOMAIN df.rows |-> <<df.rows[k].order_year, df.rows[k].order_month>>]

Partitions(df) ==
    Distinct([k \in DOMAIN df.rows |-> <<df.rows[k].order_year, df.rows[k].order_month>>])

\* lines 180-185
PartOf(df, ym) ==
    IF Empty(df) THEN EmptyFrame
    ELSE [cols |-> df.cols,
          rows |-> SelectSeq(df.rows,
                             LAMBDA r : r.order_year = ym[1] /\ r.order_month = ym[2])]

\* lines 188-189
ToWrite(df, ym) == Drop(PartOf(df, ym), PARTITION_COLS)

--------------------------------------------------------------------------
(* Object keys and the bucket. *)

\* line 30
PROCESSED_PREFIX == "processed/store_sales"

NoRunId == [ts |-> 0, rid |-> ""]

\* strftime("%Y%m%dT%H%M%S") keeps the whole seconds of the clock
UtcSecond(t) == t \div TicksPerSecond

\* the run id without the request id
RunIdOfClockOnly(t, ctx) == [ts |-> UtcSecond(t), rid |-> "local"]

\* line 191
RunId(t, ctx) ==
    [ts |-> UtcSecond(t), rid |-> IF ctx # "none" THEN ctx ELSE "local"]

\* lines 193-202: <prefix>/<dataset>/order_year=<y>/order_month=<m>/part-<run_id>.parquet
ObjectKey(dataset, ym, rid) ==
    [prefix |-> PROCESSED_PREFIX, dataset |-> dataset,
     order_year |-> ym[1], order_month |-> ym[2], part |-> rid]

\* s3.upload_file: the object at the key is created or replaced
Put(bucket, key, df, n) ==
    {f \in bucket : f.key # key}
        \cup {[key |-> key, cols |-> df.cols, rows |-> df.rows, inv |-> n]}

NoResult == [status |-> "", message |-> "", fact_orders |-> 0, fact_order_items |-> 0]

\* the test of line 103 without isinstance
IsEmptyList(b) == b.kind = "array" /\ Len(b.orders) = 0

\* line 103
IsNoOrders(b) == b.kind # "array" \/ Len(b.orders) = 0

--------------------------------------------------------------------------
(* The inputs of the model. *)

\* the timestamps of the module docstring, lines 48-50, and one of the
\* following month as a millisecond epoch (2025-02-01T12:00:00Z)
IsoJan == TsIso(<<2025, 1, 1, 12, 0, 0>>)
NsJan  == TsDigits(<<1,7,3,5,7,3,5,5,1,3,0,0,0,0,0,0,0,0,0>>)
MsFeb  == TsDigits(<<1,7,3,8,4,1,1,2,0,0,0,0,0>>)

ItemA == Item(Num(3000), Num(2005))     \* quantity 3, unit_price 2.005
ItemB == Item(NumText, Num(1500))       \* quantity "N/A", unit_price 1.5

OrderShapes ==
    { Order(TRUE,  IsoJan,   TRUE,  <<ItemA>>),
      Order(TRUE,  IsoJan,   TRUE,  <<>>),
      Order(TRUE,  IsoJan,   FALSE, <<>>),
      Order(TRUE,  NsJan,    TRUE,  <<ItemA, ItemB>>),
      Order(TRUE,  MsFeb,    TRUE,  <<ItemB>>),
      Order(TRUE,  MsFeb,    FALSE, <<>>),
      Order(TRUE,  TsText,   TRUE,  <<ItemA>>),
      Order(TRUE,  TsAbsent, TRUE,  <<ItemA>>),
      Order(FALSE, IsoJan,   FALSE, <<>>),
      Order(FALSE, TsAbsent, FALSE, <<>>) }

Bodies ==
    {Malformed} \cup {NonArray(k) : k \in NonArrayKinds}
        \cup {Array(Numbered(s)) : s \in SeqsUpTo(OrderShapes, MaxOrders)}

Contexts == {"none", "req-1", "req-2"}

--------------------------------------------------------------------------
(* lambda_handler, one invocation. *)

Idle ==
    /\ df_fact_orders = EmptyFrame /\ df_fact_order_items = EmptyFrame
    /\ partitions = <<>> /\ p = 0 /\ run_id = NoRunId
    /\ uploads = <<>> /\ result = NoResult /\ error = ""

Init ==
    /\ pc = "start" /\ body \in Bodies /\ context \in Contexts
    /\ now = 0 /\ inv = 1 /\ storage = {} /\ writes = {}
    /\ series = <<>> /\ parsed = <<>>
    /\ Idle

frame == <<body, context, now, inv, series, parsed>>

\* lines 98-101: json.loads raises
ParseFails ==
    /\ pc = "start" /\ body.kind = "malformed"
    /\ pc' = "error" /\ error' = "RuntimeError: not valid JSON"
    /\ UNCHANGED <<df_fact_orders, df_fact_order_items, partitions, p, run_id,
                   storage, uploads, writes, result>>
    /\ UNCHANGED frame

\* lines 103-104
NoOrders ==
    /\ pc = "start" /\ body.kind # "malformed" /\ IsNoOrders(body)
    /\ pc' = "done"
    /\ result' = [NoResult EXCEPT !.status = "ok", !.message = "No orders found"]
    /\ UNCHANGED <<df_fact_orders, df_fact_order_items, partitions, p, run_id,
                   storage, uploads, writes, error>>
    /\ UNCHANGED frame

\* lines 106-111
MissingFields ==
    /\ pc = "start" /\ body.kind # "malformed" /\ ~IsNoOrders(body)
    /\ MissingRequired(body.orders)
    /\ pc' = "error" /\ error' = "RuntimeError: missing required fields"
    /\ UNCHANGED <<df_fact_orders, df_fact_order_items, partitions, p, run_id,
                   storage, uploads, writes, result>>
    /\ UNCHANGED frame

\* lines 113-174
Transform ==
    /\ pc = "start" /\ body.kind # "malformed" /\ ~IsNoOrders(body)
    /\ ~MissingRequired(body.orders)
    /\ df_fact_orders' = FactOrders(body.orders)
    /\ df_fact_order_items' = FactOrderItems(body.orders)
    /\ partitions' = Partitions(FactOrders(body.orders))
    /\ p' = 1 /\ pc' = "loop"
    /\ UNCHANGED <<run_id, storage, uploads, writes, result, error>>
    /\ UNCHANGED frame

\* lines 176-202: the head of one iteration of the loop
BeginPartition ==
    /\ pc = "loop" /\ p <= Len(partitions)
    /\ run_id' = RunId(now, context)
    /\ pc' = "put_orders"
    /\ UNCHANGED <<df_fact_orders, df_fact_order_items, partitions, p,
                   storage, uploads, writes, result, error>>
    /\ UNCHANGED frame

\* _write_parquet_and_upload, lines 77-87, when nothing raises
Upload(df, dataset) ==
    IF Empty(df) THEN UNCHANGED <<storage, uploads, writes>>
    ELSE LET key == ObjectKey(dataset, partitions[p], run_id)
         IN  /\ storage' = Put(storage, key, df, inv)
             /\ uploads' = Append(uploads, key)
             /\ writes' = writes \cup {[inv |-> inv, context |-> context,
                                        second |-> run_id.ts, key |-> key]}

\* line 204
UploadOrders ==
    /\ pc = "put_orders"
    /\ Upload(ToWrite(df_fact_orders, partitions[p]), "fact_orders")
    /\ pc' = "put_items"
    /\ UNCHANGED <<df_fact_orders, df_fact_order_items, partitions, p, run_id,
                   result, error>>
    /\ UNCHANGED frame

\* line 205, and the step to the next iteration
UploadItems ==
    /\ pc = "put_items"
    /\ Upload(ToWrite(df_fact_order_items, partitions[p]), "fact_order_items")
    /\ p' = p + 1 /\ pc' = "loop"
    /\ UNCHANGED <<df_fact_orders, df_fact_order_items, partitions, run_id,
                   result, error>>
    /\ UNCHANGED frame

\* the frame the pending call of _write_parquet_and_upload was given
Pending ==
    IF pc = "put_orders" THEN ToWrite(df_fact_orders, partitions[p])
    ELSE ToWrite(df_fact_order_items, partitions[p])

\* a failed upload that deletes what the invocation has uploaded
UploadFailsAndRollsBack ==
    /\ pc \in {"put_orders", "put_items"} /\ ~Empty(Pending)
    /\ pc' = "error" /\ error' = "upload failed"
    /\ storage' = {f \in storage : f.inv # inv}
    /\ UNCHANGED <<df_fact_orders, df_fact_order_items, partitions, p, run_id,
                   uploads, writes, result>>
    /\ UNCHANGED frame

\* lines 86-87: to_parquet or s3.upload_file raises; nothing catches it
UploadFails ==
    /\ pc \in {"put_orders", "put_items"} /\ ~Empty(Pending)
    /\ pc' = "error" /\ error' = "upload failed"
    /\ UNCHANGED <<df_fact_orders, df_fact_order_items, partitions, p, run_id,
                   storage, uploads, writes, result>>
    /\ UNCHANGED frame

\* lines 207-219
Return ==
    /\ pc = "loop" /\ p > Len(partitions)
    /\ pc' = "done"
    /\ result' = [status |-> "ok", message |-> "",
                  fact_orders |-> Len(df_fact_orders.rows),
                  fact_order_items |-> IF ~Empty(df_fact_order_items)
                                       THEN Len(df_fact_order_items.rows) ELSE 0]
    /\ UNCHANGED <<df_fact_orders, df_fact_order_items, partitions, p, run_id,
                   storage, uploads, writes, error>>
    /\ UNCHANGED frame

\* time passes
Tick ==
    /\ now < MaxClock
    /\ now' = now + 1
    /\ UNCHANGED <<pc, body, context, inv, df_fact_orders, df_fact_order_items,
                   partitions, p, run_id, storage, uploads, writes, result, error,
                   series, parsed>>

Next ==
    \/ ParseFails \/ NoOrders \/ MissingFields \/ Transform
    \/ BeginPartition \/ UploadOrders \/ UploadItems \/ UploadFails
    \/ Return \/ Tick

Spec == Init /\ [][Next]_vars

--------------------------------------------------------------------------
(* Vocabulary of the properties. *)

IsBatch == body.kind = "array" /\ Len(body.orders) > 0

Parseable(o) == ~SafeCell(o.order_timestamp).nat

Retained == {k \in DOMAIN body.orders : Parseable(body.orders[k])}

YearMonth(o) ==
    <<dt_year(SafeCell(o.order_timestamp)), dt_month(SafeCell(o.order_timestamp))>>

RowsOf(df, k) == {i \in DOMAIN df.rows : df.rows[i].order_id = Val(k)}

FilesOf(dataset) == {f \in storage : f.key.dataset = dataset}

FrameOf(dataset) ==
    IF dataset = "fact_orders" THEN df_fact_orders ELSE df_fact_order_items

Datasets == {"fact_orders", "fact_order_items"}

RECURSIVE SumRows(_)
SumRows(files) ==
    IF files = {} THEN 0
    ELSE LET f == CHOOSE x \in files : TRUE
         IN  Len(f.rows) + SumRows(files \ {f})

RECURSIVE SumItems(_)
SumItems(ks) ==
    IF ks = {} THEN 0
    ELSE LET k == CHOOSE x \in ks : TRUE
         IN  (IF body.orders[k].has_items THEN Len(body.orders[k].items) ELSE 0)
                + SumItems(ks \ {k})

Returned == pc = "done" /\ result.message = ""

--------------------------------------------------------------------------
\* C1: no file in the bucket has order_year or order_month among its
\* columns, in its schema or in any row; the two values of every row are
\* those of the order_year= and order_month= segments of the file's key.
C1_NoPartitionColumnsInFiles ==
    \A f \in storage :
        /\ f.cols \cap {"order_year", "order_month"} = {}
        /\ \A i \in DOMAIN f.rows :
            /\ DOMAIN f.rows[i] \cap {"order_year", "order_month"} = {}
            /\ f.key.order_year = dt_year(f.rows[i].order_timestamp)
            /\ f.key.order_month = dt_month(f.rows[i].order_timestamp)

C1_Witness ==
    /\ Returned
    /\ FilesOf("fact_orders") # {} /\ FilesOf("fact_order_items") # {}

\* C2: when the handler returns, every retained order that carries an
\* order_id has exactly one FactOrder row and exactly as many FactOrderItem
\* rows as it has items (none for items = []), and the returned
\* fact_order_items count is the number of items of the retained orders.
C2_ItemRowsPerOrder ==
    (Returned /\ IsBatch) =>
        /\ \A k \in Retained :
              body.orders[k].has_id =>
                /\ Cardinality(RowsOf(df_fact_orders, k)) = 1
                /\ Cardinality(RowsOf(df_fact_order_items, k))
                      = IF body.orders[k].has_items
                        THEN Len(body.orders[k].items) ELSE 0
        /\ result.fact_order_items = SumItems(Retained)
        /\ SumRows(FilesOf("fact_order_items")) = SumItems(Retained)

C5_RowsWrittenOnce ==
    Returned =>
        \A ds \in Datasets :
            LET df == FrameOf(ds)
                ym(r) == <<r.order_year, r.order_month>>
                at(f) == <<f.key.order_year, f.key.order_month>>
            IN  /\ {at(f) : f \in FilesOf(ds)} = {ym(df.rows[i]) : i \in DOMAIN df.rows}
                /\ \A f, g \in FilesOf(ds) : at(f) = at(g) => f = g
                /\ \A f \in FilesOf(ds) :
                      /\ Len(f.rows)
                           = Cardinality({i \in DOMAIN df.rows : ym(df.rows[i]) = at(f)})
                      /\ \A i \in DOMAIN df.rows :
                            ym(df.rows[i]) = at(f) =>
                                \E j \in DOMAIN f.rows :
                                    f.rows[j] = Restrict(df.rows[i], f.cols)
                /\ SumRows(FilesOf(ds))
                      = IF ds = "fact_orders" THEN result.fact_orders
                        ELSE result.fact_order_items

C5_Witness ==
    /\ Returned
    /\ Cardinality(FilesOf("fact_orders")) = 2
    /\ Cardinality(FilesOf("fact_order_items")) = 2
    /\ result.fact_orders = 2

\* C6: an input that is an empty array or a JSON value that is no array
\* never raises and uploads nothing, and the handler returns status "ok"
\* with a message.
C6_NoOpOnEmptyOrNonArray ==
    (body.kind \in NonArrayKinds \/ (body.kind = "array" /\ body.orders = <<>>)) =>
        /\ pc \in {"start", "done"}
        /\ error = "" /\ uploads = <<>> /\ storage = {}
        /\ pc = "done" => (result.status = "ok" /\ result.message # "")

C6_Witness ==
    /\ pc = "done" /\ body.kind = "null" /\ result.status = "ok"

\* C7: an input that is not JSON, or a batch in which no record carries
\* order_id or no record carries order_timestamp, ends in an error with
\* nothing uploaded and nothing returned; a batch in which some record
\* carries each key is never rejected for missing fields.
C7_BatchValidation ==
    LET none(has(_)) == \A k \in DOMAIN body.orders : ~has(body.orders[k])
        hasId(o) == o.has_id
        hasTs(o) == o.order_timestamp.kind # "absent"
    IN  /\ (body.kind = "malformed" \/ (IsBatch /\ (none(hasId) \/ none(hasTs)))) =>
              /\ pc \in {"start", "error"}
              /\ uploads = <<>> /\ storage = {} /\ result = NoResult
        /\ (IsBatch /\ ~none(hasId) /\ ~none(hasTs)) =>
              /\ error # "RuntimeError: missing required fields"
              /\ pc = "error" => error = "upload failed"

C7_Witness ==
    /\ Returned
    /\ \E k \in DOMAIN body.orders : ~body.orders[k].has_id
    /\ \E k \in DOMAIN body.orders : body.orders[k].order_timestamp.kind = "absent"

\* the place of a key in the order of the uploads: partition by partition,
\* the orders file before the items file
Rank(key) ==
    LET i == CHOOSE i \in DOMAIN partitions :
                 partitions[i] = <<key.order_year, key.order_month>>
    IN  2 * i + (IF key.dataset = "fact_orders" THEN 0 ELSE 1)

\* C10: uploads happen one at a time in partition order, the orders file
\* of a partition before its items file; once an upload has failed the
\* invocation stays failed and uploads nothing more; and no step removes
\* or changes a file that is in the bucket.
C10_SequentialNoRollback ==
    [][ /\ (pc = "error" => (pc' = "error" /\ storage' = storage /\ uploads' = uploads))
        /\ storage \subseteq storage'
        /\ uploads' # uploads =>
              /\ Len(uploads') = Len(uploads) + 1
              /\ SubSeq(uploads', 1, Len(uploads)) = uploads
              /\ \A i \in DOMAIN uploads : Rank(uploads[i]) < Rank(uploads'[Len(uploads')])
              /\ Cardinality(storage') = Cardinality(storage) + 1
      ]_vars

C10_Witness ==
    /\ pc = "error" /\ error = "upload failed"
    /\ Len(uploads) = 3 /\ Cardinality(storage) = 3

--------------------------------------------------------------------------
(* The item-level specification: one order of January 2025 whose items     *)
(* range over every pairing of a quantity cell with a unit_price cell.     *)

QuantityCells == {NumAbsent, NumText, Num(3000), NumStr(<<2>>)}
PriceCells    == {NumAbsent, NumText, Num(2005), Num(1999)}

ItemChoices == {Item(q, u) : q \in QuantityCells, u \in PriceCells}

ItemBodies ==
    {Array(Numbered(<<Order(TRUE, IsoJan, TRUE, items)>>)) :
        items \in SeqsUpTo(ItemChoices, MaxItems) \ {<<>>}}

InitItems ==
    /\ pc = "start" /\ body \in ItemBodies /\ context = "req-1"
    /\ now = 0 /\ inv = 1 /\ storage = {} /\ writes = {}
    /\ series = <<>> /\ parsed = <<>>
    /\ Idle

NextItems ==
    \/ Transform \/ BeginPartition \/ UploadOrders \/ UploadItems \/ Return

SpecItems == InitItems /\ [][NextItems]_vars

IsNumeric(c) == c.kind \in {"num", "str"}

\* the number a cell spells, in thousandths
Thousandths(c) == IF c.kind = "num" THEN c.v ELSE FromDigits(c.d) * 1000

\* C9: past the transformation nothing has raised and every item has its
\* FactOrderItem row; the row's line_total is a whole number of hundredths
\* within half a hundredth of quantity * unit_price when both are numeric,
\* and is absent (no such column, or a missing cell) otherwise.
C9_LineTotal ==
    (IsBatch /\ pc # "start") =>
        LET items == body.orders[1].items
            rows  == df_fact_order_items.rows
        IN  /\ error = ""
            /\ Len(rows) = Len(items)
            /\ \A j \in DOMAIN items :
                  LET q == items[j].quantity
                      u == items[j].unit_price
                  IN  IF IsNumeric(q) /\ IsNumeric(u)
                      THEN /\ "line_total" \in DOMAIN rows[j]
                           /\ ~rows[j].line_total.na
                           /\ LET exact == Thousandths(q) * Thousandths(u)
                                  got   == rows[j].line_total.v * 10000
                              IN  got - exact <= 5000 /\ exact - got <= 5000
                      ELSE \/ "line_total" \notin DOMAIN rows[j]
                           \/ rows[j].line_total.na

C9_Witness ==
    /\ Returned /\ Len(df_fact_order_items.rows) = 2
    /\ "line_total" \in df_fact_order_items.cols
    /\ ~df_fact_order_items.rows[1].line_total.na
    /\ df_fact_order_items.rows[2].line_total.na
    /\ body.orders[1].items[2].quantity.kind = "text"
    /\ SumRows(FilesOf("fact_order_items")) = 2

--------------------------------------------------------------------------
(* The timestamp specification: _safe_to_datetime called on a column that  *)
(* holds one instant three ways (ISO-8601 string, millisecond epoch,       *)
(* nanosecond epoch), or values that no path parses.                       *)

MsEpoch(c) == ToDigits(EpochSeconds(c)) \o Zeros(3)
NsEpoch(c) == ToDigits(EpochSeconds(c)) \o Zeros(9)

Civils ==
    {<<y, m, d, t[1], t[2], t[3]>> :
        y \in {1970, 1971, 2000, 2025, 2037}, m \in {1, 2, 12}, d \in {1, 12, 13, 28},
        t \in {<<0, 0, 0>>, <<13, 46, 39>>, <<13, 46, 40>>, <<23, 59, 59>>}}

ThreeWays == {<<TsIso(c), TsDigits(MsEpoch(c)), TsDigits(NsEpoch(c))>> : c \in Civils}

\* an unparseable string, a missing value, the 31st of February, a date in
\* month 13, a number of twenty digits
Unparsed ==
    {<<TsText, TsAbsent, TsIso(<<2025, 2, 31, 0, 0, 0>>)>>,
     <<TsIso(<<2025, 13, 1, 0, 0, 0>>), TsDigits(<<1>> \o Zeros(19)), TsText>>}

InitTs ==
    /\ pc = "ts_call" /\ series \in ThreeWays \cup Unparsed /\ parsed = <<>>
    /\ body = NonArray("null") /\ context = "none"
    /\ now = 0 /\ inv = 1 /\ storage = {} /\ writes = {}
    /\ Idle

\* lines 45-73
CallSafeToDatetime ==
    /\ pc = "ts_call"
    /\ parsed' = safe_to_datetime(series)
    /\ pc' = "ts_done"
    /\ UNCHANGED <<body, context, now, inv, df_fact_orders, df_fact_order_items,
                   partitions, p, run_id, storage, uploads, writes, result, error,
                   series>>

NextTs == CallSafeToDatetime

SpecTs == InitTs /\ [][NextTs]_vars

\* C8: a column of an ISO-8601 string, the millisecond epoch and the
\* nanosecond epoch of one instant of a year after 1970 parses to three
\* equal instants, on the calendar date the string spells; a digit string
\* of at most 15 digits that parses is read as milliseconds and a longer one
\* as nanoseconds; a value that no path parses gives NaT.
C8_SameInstant ==
    pc = "ts_done" =>
        /\ Len(parsed) = Len(series)
        /\ series \in ThreeWays =>
              /\ series[1].c[1] > 1970 =>
                    /\ ~parsed[1].nat
                    /\ parsed[2] = parsed[1] /\ parsed[3] = parsed[1]
                    /\ dt_date(parsed[1]) = SubSeq(series[1].c, 1, 3)
              /\ \A i \in {2, 3} :
                    ~parsed[i].nat =>
                        parsed[i].ns =
                            StripZeros(IF Len(StripZeros(series[i].d)) <= 15
                                       THEN series[i].d \o Zeros(6) ELSE series[i].d)
        /\ series \in Unparsed => \A i \in DOMAIN parsed : parsed[i] = NaT

C8_Witness ==
    /\ pc = "ts_done" /\ series \in ThreeWays
    /\ series[1].c = <<2025, 1, 1, 13, 46, 40>>
    /\ parsed[3] = parsed[1] /\ parsed[2] = parsed[1] /\ ~parsed[1].nat

--------------------------------------------------------------------------
(* The repeated-invocation specification: the handler is invoked again,    *)
(* with any context, on the bucket the earlier invocations wrote to.       *)

RunShapes ==
    { Order(TRUE, IsoJan, TRUE,  <<ItemA>>),
      Order(TRUE, MsFeb,  FALSE, <<>>) }

\* batches of one month, of the other, and of both
RunBodies ==
    {Array(Numbered(s)) :
        s \in {t \in SeqsUpTo(RunShapes, 2) :
                  t # <<>> /\ \A i, j \in DOMAIN t : i < j => t[i] # t[j]}}

InitRuns ==
    /\ pc = "start" /\ body \in RunBodies /\ context \in Contexts
    /\ now = 0 /\ inv = 1 /\ storage = {} /\ writes = {}
    /\ series = <<>> /\ parsed = <<>>
    /\ Idle

\* the trigger invokes lambda_handler again, line 90
Reinvoke ==
    /\ pc \in {"done", "error"} /\ inv < MaxInvocations
    /\ pc' = "start" /\ inv' = inv + 1
    /\ body' \in RunBodies /\ context' \in Contexts
    /\ df_fact_orders' = EmptyFrame /\ df_fact_order_items' = EmptyFrame
    /\ partitions' = <<>> /\ p' = 0 /\ run_id' = NoRunId
    /\ uploads' = <<>> /\ result' = NoResult /\ error' = ""
    /\ UNCHANGED <<now, storage, writes, series, parsed>>

NextRuns ==
    \/ Transform \/ BeginPartition \/ UploadOrders \/ UploadItems \/ UploadFails
    \/ Return \/ Tick \/ Reinvoke

SpecRuns == InitRuns /\ [][NextRuns]_vars

RequestId(ctx) == IF ctx = "none" THEN "local" ELSE ctx

\* C3 as stated: no two invocations ever upload to the same key.
C3_NeverCollide ==
    \A w1, w2 \in writes : w1.inv # w2.inv => w1.key # w2.key

\* C3 as amended: two invocations upload to different keys whenever their
\* request ids differ (an absent context counting as "local") or their run
\* ids were taken in different UTC seconds.
C3_DistinctRunIdsNeverCollide ==
    \A w1, w2 \in writes :
        (/\ w1.inv # w2.inv
         /\ \/ RequestId(w1.context) # RequestId(w2.context)
            \/ w1.second # w2.second)
            => w1.key # w2.key

C3_Witness ==
    \E w1, w2 \in writes :
        /\ w1.inv # w2.inv
        /\ w1.key.dataset = w2.key.dataset
        /\ w1.key.order_year = w2.key.order_year
        /\ w1.key.order_month = w2.key.order_month
        /\ w1.second = w2.second
        /\ w1.context = "req-1" /\ w2.context = "req-2"
        /\ w1.key # w2.key
        /\ \E f \in storage : f.key = w1.key /\ f.inv = w1.inv

====
